---- MODULE Spec2Model ----
(***************************************************************************)
(* Loan ledger of the library service: checkout_book / return_book         *)
(* (app/services/loan.py) and update_book / delete_book                    *)
(* (app/services/book.py) running as concurrent requests, one database     *)
(* transaction each, against PostgreSQL at READ COMMITTED.                 *)
(*                                                                         *)
(* Every step of a request is one SQL statement (or the flush + COMMIT     *)
(* that ends the transaction).  Writes of an open transaction are kept in  *)
(* the request's record and in the row locks it holds; they reach the      *)
(* committed tables `books` and `loans` only in the step that commits.     *)
(* A statement that has to wait for a row lock is a disabled action; once  *)
(* the lock is free it runs against the rows committed by then, as an      *)
(* UPDATE / DELETE / SELECT FOR UPDATE does at READ COMMITTED.             *)
(*                                                                         *)
(* The ORM layer is modelled where it decides an outcome: an attribute set *)
(* to the value it was loaded with produces no UPDATE; an UPDATE by        *)
(* primary key that matches no row raises StaleDataError (500); the        *)
(* refresh after a COMMIT belongs to the committing step.  The session     *)
(* factory (app/db/session.py) sets whether db.get() flushes pending       *)
(* changes first; both settings are behaviours of the model (autoflush).   *)
(*                                                                         *)
(* Beside the ledger the module holds the catalogue (create_book and       *)
(* update_book with an ISBN, list_books), the loan listing (list_loans),   *)
(* the authentication and role gate (app/auth/dependencies.py) in front of *)
(* the gated routes, and get_or_create_user (app/services/user.py).  Each  *)
(* part has a specification of its own at the end of the module; all of    *)
(* them share the variables below.                                         *)
(***************************************************************************)
EXTENDS Integers, FiniteSets, Sequences, TLC

\* ---------------------------------------------------------------- bounds
MaxReq   == 3      \* number of requests in one behaviour
MaxBooks == 2      \* number of book ids

MaxUsers == 4      \* number of users rows
MaxCalls == 3      \* number of get_or_create_user calls in one behaviour
MaxPage  == 3      \* largest page number asked for
MaxSize  == 2      \* largest page_size asked for

Reqs    == 1..MaxReq
BookIds == 1..MaxBooks
UserIds == 1..MaxUsers
Calls   == 1..MaxCalls
LoanIds == 1..(MaxBooks + MaxReq)   \* at most one loan per book at the start,
                                    \* and at most one more per request

\* ------------------------------------------------------------ identities
\* users table: never written by the loan/catalogue operations
Users == {"mem", "lib", "adm"}

role(u) == CASE u = "mem" -> "MEMBER"
             [] u = "lib" -> "LIBRARIAN"
             [] u = "adm" -> "ADMIN"

VARIABLES
    books,      \* committed books.status per id; "NONE" = no such row
    loans,      \* committed loans rows per id;  status "NONE" = no such row
    nextLoan,   \* next fresh loan id (uuid4 default)
    clock,      \* source of timestamps
    autoflush,  \* Session autoflush setting of the process
    bookLock,   \* row lock holder per book row (0 = free)
    loanLock,   \* row lock holder per loan row (0 = free)
    req,        \* per request: operation, position, arguments, locals, result
    isbn,       \* committed books.isbn per id ("null" = no ISBN)
    accounts,   \* committed users rows per id
    logins,     \* per get_or_create_user call: position, assertion, result
    last        \* the response to the latest listing or gated request

ledger == <<books, loans, nextLoan, clock, autoflush, bookLock, loanLock, req>>
side   == <<isbn, accounts, logins, last>>
vars   == <<books, loans, nextLoan, clock, autoflush, bookLock, loanLock, req,
           isbn, accounts, logins, last>>

NoLoan == [book |-> 0, user |-> "-", status |-> "NONE", out_at |-> 0, ret_at |-> 0]

\* op, actor, book, loan, arg: the request; pc: its position; res: the HTTP
\* status it ended with (0 while open); seen: the book status it loaded;
\* ts: the timestamp it took; flushed: its UPDATE loans has been sent;
\* blocked: its SELECT ... FOR UPDATE found the row locked and had to wait
IdleReq == [op |-> "none", pc |-> "idle", actor |-> "-", book |-> 0, loan |-> 0,
            arg |-> "-", seen |-> "-", ts |-> 0, flushed |-> FALSE,
            blocked |-> FALSE, res |-> 0]

\* rows of the committed loans table
ActiveLoans(ls, b) == {l \in LoanIds : ls[l].status = "OUT" /\ ls[l].book = b}
LoansOf(ls, b)     == {l \in LoanIds : ls[l].status # "NONE" /\ ls[l].book = b}

\* -------------------------------------------------- the other tables at rest
\* models/user.py: a users row; role "NONE" = no such row, "null" = NULL column
NoUser == [email |-> "-", provider |-> "-", subject |-> "-", role |-> "NONE"]

\* a get_or_create_user call that has not been made
IdleLogin == [pc |-> "idle", email |-> "-", provider |-> "-", subject |-> "-",
              user |-> 0, via |-> "-"]

\* no listing or gated request has been answered yet
NoReply == [op |-> "none", pc |-> "idle", status |-> 0]

\* the ledger operations never touch books.isbn, the users table or a login
SideAtRest ==
    /\ isbn = [b \in BookIds |-> "null"]
    /\ accounts = [u \in UserIds |-> NoUser]
    /\ logins = [c \in Calls |-> IdleLogin]
    /\ last = NoReply

\* ------------------------------------------------------- the ledger at rest
\* The ledger a behaviour starts from: every book of the shelf is either
\* available with no loan, or was checked out earlier by some user (the state a
\* committed checkout_book leaves: one OUT loan, book BORROWED); an id outside
\* the shelf names no book.  No request is open.
Borrowers == [BookIds -> Users \cup {"-"}]

LoanIdAt(h, b) == Cardinality({c \in BookIds : c <= b /\ h[c] # "-"})

InitLoans(h) ==
    [l \in LoanIds |->
        IF \E b \in BookIds : h[b] # "-" /\ LoanIdAt(h, b) = l
          THEN LET b == CHOOSE c \in BookIds : h[c] # "-" /\ LoanIdAt(h, c) = l
               IN [book |-> b, user |-> h[b], status |-> "OUT", out_at |-> l, ret_at |-> 0]
          ELSE NoLoan]

InitLedger(shelf) ==
    \E h \in Borrowers :
        /\ \A b \in BookIds \ shelf : h[b] = "-"
        /\ books = [b \in BookIds |-> IF b \notin shelf THEN "NONE"
                                      ELSE IF h[b] = "-" THEN "AVAILABLE" ELSE "BORROWED"]
        /\ loans = InitLoans(h)
        /\ nextLoan = Cardinality({b \in BookIds : h[b] # "-"}) + 1
        /\ clock = Cardinality({b \in BookIds : h[b] # "-"}) + 1
        /\ autoflush \in BOOLEAN
        /\ bookLock = [b \in BookIds |-> 0]
        /\ loanLock = [l \in LoanIds |-> 0]
        /\ req = [r \in Reqs |-> IdleReq]

\* one book in the catalogue; the other ids are unknown to it
OneBook == {b \in BookIds : b = 1}

Init == InitLedger(OneBook) /\ SideAtRest

\* requests arrive in slot order
CanStart(r) == /\ req[r].pc = "idle"
               /\ \A q \in Reqs : q < r => req[q].pc # "idle"

\* the response is sent and the session closed
Finish(r, code) == [req[r] EXCEPT !.pc = "done", !.res = code, !.ts = 0,
                                  !.flushed = FALSE]

ReleaseBooks(r) == [b \in BookIds |-> IF bookLock[b] = r THEN 0 ELSE bookLock[b]]
ReleaseLoans(r) == [l \in LoanIds |-> IF loanLock[l] = r THEN 0 ELSE loanLock[l]]

\* ======================================================== checkout_book
\* mutant: a plain SELECT, no FOR UPDATE
NoRowLock(r, b) == TRUE

\* the row lock of SELECT ... FOR UPDATE (loan.py:23): the statement waits
\* while another transaction holds the row
RowLockFree(r, b) == bookLock[b] \in {0, r}

\* the request arrives; its SELECT ... FOR UPDATE has not returned yet
StartCheckout(r, u, b) ==
    /\ CanStart(r)
    /\ req' = [req EXCEPT ![r] = [IdleReq EXCEPT !.op = "checkout", !.pc = "co_lock",
                                                 !.actor = u, !.book = b,
                                                 !.blocked = ~RowLockFree(r, b)]]
    /\ UNCHANGED <<books, loans, nextLoan, clock, autoflush, bookLock, loanLock>>
    /\ UNCHANGED side

\* mutant: the status check is left to the unique index
NoStatusCheck(st) == IF st = "NONE" THEN 404 ELSE 0

\* loan.py:24-27  404 when the book is absent, 409 when it is BORROWED,
\* 0 to go on
CheckoutRefusal(st) == IF st = "NONE" THEN 404
                       ELSE IF st = "BORROWED" THEN 409
                       ELSE 0

\* loan.py:23-27  SELECT book FOR UPDATE, then the two checks
CheckoutLock(r) ==
    LET b == req[r].book
        code == CheckoutRefusal(books[b]) IN
    /\ req[r].pc = "co_lock"
    /\ RowLockFree(r, b)
    /\ IF code # 0
         THEN /\ req' = [req EXCEPT ![r] = [Finish(r, code) EXCEPT !.seen = books[b]]]
              /\ UNCHANGED <<bookLock, clock>>
         ELSE /\ req' = [req EXCEPT ![r].pc = "co_commit", ![r].seen = books[b],
                                    ![r].ts = clock]
              /\ bookLock' = [bookLock EXCEPT ![b] = r]
              /\ clock' = clock + 1
    /\ UNCHANGED <<books, loans, nextLoan, autoflush, loanLock>>
    /\ UNCHANGED side

\* loan.py:23-27 where FOR UPDATE takes no effect: the SELECT returns the
\* committed row at once and leaves it unlocked, then the two checks
CheckoutUnlocked(r) ==
    LET b == req[r].book
        code == CheckoutRefusal(books[b]) IN
    /\ req[r].pc = "co_lock"
    /\ IF code # 0
         THEN /\ req' = [req EXCEPT ![r] = [Finish(r, code) EXCEPT !.seen = books[b]]]
              /\ UNCHANGED clock
         ELSE /\ req' = [req EXCEPT ![r].pc = "co_commit", ![r].seen = books[b],
                                    ![r].ts = clock]
              /\ clock' = clock + 1
    /\ UNCHANGED <<books, loans, nextLoan, autoflush, bookLock, loanLock>>
    /\ UNCHANGED side

\* mutant: the partial unique index was never created
NoUniqueIndex(ls, b) == FALSE

\* uq_active_loan_per_book: UNIQUE (book_id) WHERE status = 'OUT'
UniqueActiveLoanViolated(ls, b) == ActiveLoans(ls, b) # {}

\* the INSERT waits on the index while another open transaction has written
\* (updated or deleted) a row that is OUT for this book
IndexWait(r, b) == \E l \in ActiveLoans(loans, b) : loanLock[l] \notin {0, r}

\* mutant: the new row is stamped as returned
ReturnedAtBirth(b, u, ts) ==
    [book |-> b, user |-> u, status |-> "OUT", out_at |-> ts, ret_at |-> ts]

\* loan.py:29  Loan(book_id, user_id); status and checked_out_at by server default
NewLoan(b, u, ts) == [book |-> b, user |-> u, status |-> "OUT", out_at |-> ts, ret_at |-> 0]

\* mutant: the book row is not written
NoBookWrite(bs, b) == bs

\* loan.py:31  book.status = BORROWED
BookAfterCheckout(bs, b) == [bs EXCEPT ![b] = "BORROWED"]

\* loan.py:29-42  INSERT loan, UPDATE book, COMMIT; an IntegrityError (the
\* unique index, or the foreign key when the book row is gone) -> rollback, 409
CheckoutCommit(r) ==
    LET b == req[r].book
        l == nextLoan IN
    /\ req[r].pc = "co_commit"
    /\ ~IndexWait(r, b)
    /\ IF UniqueActiveLoanViolated(loans, b) \/ books[b] = "NONE"
         THEN /\ req' = [req EXCEPT ![r] = Finish(r, 409)]
              /\ UNCHANGED <<books, loans, nextLoan>>
         ELSE /\ loans' = [loans EXCEPT ![l] = NewLoan(b, req[r].actor, req[r].ts)]
              /\ books' = BookAfterCheckout(books, b)
              /\ nextLoan' = nextLoan + 1
              /\ req' = [req EXCEPT ![r] = [Finish(r, 201) EXCEPT !.loan = l]]
    /\ bookLock' = ReleaseBooks(r)
    /\ UNCHANGED <<clock, autoflush, loanLock>>
    /\ UNCHANGED side

\* ========================================================== return_book
\* mutant: the lookup does not filter on the status
AnyLoanFound(ls, l) == ls[l].status # "NONE"

\* loan.py:52  SELECT loan WHERE id = :loan_id AND status = 'OUT'
ActiveLoanFound(ls, l) == ls[l].status = "OUT"

\* mutant: no ownership check
NeverForbidden(u, owner) == FALSE

\* mutant: the ownership check applies to every role
OwnerOnly(u, owner) == owner # u

\* loan.py:56  a MEMBER may only return their own loan
ReturnForbidden(u, owner) == role(u) = "MEMBER" /\ owner # u

\* loan.py:52-60  look the loan up, 404 / 403, then stamp the loan in the session
ReturnSelect(r, u, l) ==
    /\ CanStart(r)
    /\ l \in LoanIds
    /\ LET q == [IdleReq EXCEPT !.op = "return", !.actor = u, !.loan = l] IN
       IF ~ActiveLoanFound(loans, l)
         THEN /\ req' = [req EXCEPT ![r] = [q EXCEPT !.pc = "done", !.res = 404]]
              /\ UNCHANGED clock
         ELSE IF ReturnForbidden(u, loans[l].user)
         THEN /\ req' = [req EXCEPT ![r] = [q EXCEPT !.pc = "done", !.res = 403]]
              /\ UNCHANGED clock
         ELSE /\ req' = [req EXCEPT ![r] = [q EXCEPT !.pc = "ret_get",
                                                     !.book = loans[l].book,
                                                     !.ts = clock]]
              /\ clock' = clock + 1
    /\ UNCHANGED <<books, loans, nextLoan, autoflush, bookLock, loanLock>>
    /\ UNCHANGED side

\* loan.py:62  db.get(Book, loan.book_id).  With autoflush the pending
\* UPDATE loans ... WHERE id = :id is sent first: it takes the loan's row lock,
\* and matching no row raises StaleDataError (500).
ReturnGetBook(r) ==
    LET l == req[r].loan
        b == req[r].book IN
    /\ req[r].pc = "ret_get"
    /\ IF autoflush
         THEN /\ loanLock[l] \in {0, r}
              /\ IF loans[l].status = "NONE"
                   THEN /\ req' = [req EXCEPT ![r] = Finish(r, 500)]
                        /\ UNCHANGED loanLock
                   ELSE /\ req' = [req EXCEPT ![r].pc = "ret_commit",
                                              ![r].seen = books[b],
                                              ![r].flushed = TRUE]
                        /\ loanLock' = [loanLock EXCEPT ![l] = r]
         ELSE /\ req' = [req EXCEPT ![r].pc = "ret_commit", ![r].seen = books[b]]
              /\ UNCHANGED loanLock
    /\ UNCHANGED <<books, loans, nextLoan, clock, autoflush, bookLock>>
    /\ UNCHANGED side

\* loan.py:63-64  book.status = AVAILABLE is a change of the loaded row
BookWritePending(seen) == seen \notin {"NONE", "AVAILABLE"}

\* mutant: the status is flipped instead of set
ToggledRow(row, ts) ==
    [row EXCEPT !.status = IF row.status = "OUT" THEN "RETURNED" ELSE "OUT", !.ret_at = ts]

\* loan.py:59-60  the columns the UPDATE sets
ReturnedRow(row, ts) == [row EXCEPT !.status = "RETURNED", !.ret_at = ts]

\* mutant: return_book forgets the book
NoBookReset(bs, b, w) == bs

\* loan.py:62-64  the book goes back to AVAILABLE (w: the write is pending)
BookAfterReturn(bs, b, w) == IF w THEN [bs EXCEPT ![b] = "AVAILABLE"] ELSE bs

\* loan.py:63-66  flush what is pending (UPDATE loans unless already sent,
\* UPDATE books when the status changes) and COMMIT
ReturnCommit(r) ==
    LET l == req[r].loan
        b == req[r].book
        w == BookWritePending(req[r].seen) IN
    /\ req[r].pc = "ret_commit"
    /\ loanLock[l] \in {0, r}
    /\ w => bookLock[b] \in {0, r}
    /\ IF loans[l].status = "NONE" \/ (w /\ books[b] = "NONE")
         THEN /\ req' = [req EXCEPT ![r] = Finish(r, 500)]
              /\ UNCHANGED <<books, loans>>
         ELSE /\ loans' = [loans EXCEPT ![l] = ReturnedRow(loans[l], req[r].ts)]
              /\ books' = BookAfterReturn(books, b, w)
              /\ req' = [req EXCEPT ![r] = Finish(r, 200)]
    /\ loanLock' = ReleaseLoans(r)
    /\ UNCHANGED <<nextLoan, clock, autoflush, bookLock>>
    /\ UNCHANGED side

\* =========================================================== list_loans
Pages == 1..MaxPage     \* Query(1, ge=1)
Sizes == 1..MaxSize     \* Query(20, ge=1, le=100)

\* mutant: the role filter is missing
VisibleToAll(u, row) == TRUE

\* loan.py:84-86  a MEMBER's listing is filtered on user_id = current_user.id
LoanVisible(u, row) == role(u) = "MEMBER" => row.user = u

\* the rows the base query selects
Listed(u, ls) == {l \in LoanIds : ls[l].status # "NONE" /\ LoanVisible(u, ls[l])}

\* loan.py:88  SELECT count(*) FROM (base)
ListTotal(u, ls) == Cardinality(Listed(u, ls))

\* loan.py:91  ORDER BY checked_out_at DESC
RECURSIVE NewestFirst(_, _)
NewestFirst(S, ls) ==
    IF S = {} THEN <<>>
    ELSE LET m == CHOOSE l \in S : \A k \in S : ls[k].out_at <= ls[l].out_at
         IN <<m>> \o NewestFirst(S \ {m}, ls)

\* loan.py:91  OFFSET (page - 1) * page_size LIMIT page_size
Window(seq, page, size) ==
    LET off == (page - 1) * size
        n == IF Len(seq) - off < 0 THEN 0
             ELSE IF Len(seq) - off < size THEN Len(seq) - off ELSE size
    IN [i \in 1..n |-> seq[off + i]]

\* loan.py:84-88  the first statement of a listing: the count
ListCount(u, page, size) ==
    /\ last.pc # "rows"
    /\ last' = [op |-> "list_loans", pc |-> "rows", status |-> 0, actor |-> u,
                page |-> page, size |-> size, total |-> ListTotal(u, loans),
                items |-> <<>>]
    /\ UNCHANGED <<ledger, isbn, accounts, logins>>

\* loan.py:90-93  the second statement: the page of rows; api/v1/loans.py:104
ListRows ==
    /\ last.op = "list_loans" /\ last.pc = "rows"
    /\ last' = [last EXCEPT !.pc = "done", !.status = 200,
                            !.items = Window(NewestFirst(Listed(last.actor, loans), loans),
                                             last.page, last.size)]
    /\ UNCHANGED <<ledger, isbn, accounts, logins>>

\* ================================================ update_book, delete_book
\* api/v1/books.py: require_role(LIBRARIAN, ADMIN) in front of PUT and DELETE
StaffOnly(u) == role(u) \in {"LIBRARIAN", "ADMIN"}

\* a request the role gate turns away never reaches its handler; the handlers
\* behind the gate (update_book, delete_book) are not given the actor
Rejected(o, u) == [IdleReq EXCEPT !.op = o, !.actor = u, !.pc = "done", !.res = 403]

\* BookUpdate.status: a status to set, or "UNSET" when the request leaves the
\* status out and changes another field
StatusArgs == {"AVAILABLE", "BORROWED", "UNSET"}

\* book.py:93 + get_book  SELECT the book, 404 when absent
UpdateGet(r, u, b, st) ==
    /\ CanStart(r)
    /\ LET q == [IdleReq EXCEPT !.op = "update", !.book = b, !.arg = st] IN
       req' = [req EXCEPT ![r] =
                 IF ~StaffOnly(u) THEN Rejected("update", u)
                 ELSE IF books[b] = "NONE" THEN [q EXCEPT !.pc = "done", !.res = 404]
                 ELSE [q EXCEPT !.pc = "up_commit", !.seen = books[b]]]
    /\ UNCHANGED <<books, loans, nextLoan, clock, autoflush, bookLock, loanLock>>
    /\ UNCHANGED side

\* book.py:95-97  setattr of the supplied fields: an UPDATE is pending unless
\* the only supplied field is a status equal to the one loaded
UpdatePending(st, seen) == st = "UNSET" \/ st # seen

\* mutant: an update that leaves the status out resets it
ResetsStatus(st, old) == IF st = "UNSET" THEN "AVAILABLE" ELSE st

\* the status the UPDATE leaves in the row
StatusAfterUpdate(st, old) == IF st = "UNSET" THEN old ELSE st

\* book.py:99-107  flush the UPDATE (StaleDataError when the row is gone),
\* COMMIT, refresh
UpdateCommit(r) ==
    LET b == req[r].book
        st == req[r].arg
        w == UpdatePending(st, req[r].seen) IN
    /\ req[r].pc = "up_commit"
    /\ w => bookLock[b] \in {0, r}
    /\ IF books[b] = "NONE"
         THEN /\ req' = [req EXCEPT ![r] = Finish(r, 500)]
              /\ UNCHANGED books
         ELSE /\ books' = IF w THEN [books EXCEPT ![b] = StatusAfterUpdate(st, books[b])]
                               ELSE books
              /\ req' = [req EXCEPT ![r] = Finish(r, 200)]
    /\ UNCHANGED <<loans, nextLoan, clock, autoflush, bookLock, loanLock>>
    /\ UNCHANGED side

\* book.py:111 + get_book  SELECT the book, 404 when absent
DeleteGet(r, u, b) ==
    /\ CanStart(r)
    /\ LET q == [IdleReq EXCEPT !.op = "delete", !.book = b] IN
       req' = [req EXCEPT ![r] =
                 IF ~StaffOnly(u) THEN Rejected("delete", u)
                 ELSE IF books[b] = "NONE" THEN [q EXCEPT !.pc = "done", !.res = 404]
                 ELSE [q EXCEPT !.pc = "del_check"]]
    /\ UNCHANGED <<books, loans, nextLoan, clock, autoflush, bookLock, loanLock>>
    /\ UNCHANGED side

\* mutant: the check looks for a RETURNED loan
ReturnedLoanFound(ls, b) == \E l \in LoansOf(ls, b) : ls[l].status = "RETURNED"

\* book.py:114-118  SELECT loan WHERE book_id = :id AND status = 'OUT'
BorrowedNow(ls, b) == ActiveLoans(ls, b) # {}

\* book.py:113-122  SELECT an OUT loan of the book, 409 when there is one
DeleteCheck(r) ==
    /\ req[r].pc = "del_check"
    /\ req' = [req EXCEPT ![r] =
                 IF BorrowedNow(loans, req[r].book)
                   THEN Finish(r, 409)
                   ELSE [req[r] EXCEPT !.pc = "del_loans"]]
    /\ UNCHANGED <<books, loans, nextLoan, clock, autoflush, bookLock, loanLock>>
    /\ UNCHANGED side

\* book.py:125  DELETE FROM loans WHERE book_id = :id  (rows stay locked and
\* deleted-pending until the transaction ends)
DeleteLoans(r) ==
    LET b == req[r].book IN
    /\ req[r].pc = "del_loans"
    /\ \A l \in LoansOf(loans, b) : loanLock[l] \in {0, r}
    /\ loanLock' = [l \in LoanIds |-> IF l \in LoansOf(loans, b) THEN r ELSE loanLock[l]]
    /\ req' = [req EXCEPT ![r].pc = "del_commit"]
    /\ UNCHANGED <<books, loans, nextLoan, clock, autoflush, bookLock>>
    /\ UNCHANGED side

\* mutant: the foreign key is not enforced
NoForeignKey(r, b) == FALSE

\* loans.book_id REFERENCES books ON DELETE RESTRICT: a loan row of the book
\* that this transaction has not deleted
RestrictViolated(r, b) == \E l \in LoansOf(loans, b) : loanLock[l] # r

\* book.py:127-128  DELETE the book and COMMIT; a foreign-key violation is an
\* IntegrityError nobody catches (500)
DeleteCommit(r) ==
    LET b == req[r].book IN
    /\ req[r].pc = "del_commit"
    /\ bookLock[b] \in {0, r}
    /\ IF RestrictViolated(r, b)
         THEN /\ req' = [req EXCEPT ![r] = Finish(r, 500)]
              /\ UNCHANGED <<books, loans>>
         ELSE /\ loans' = [l \in LoanIds |-> IF loanLock[l] = r THEN NoLoan ELSE loans[l]]
              /\ books' = [books EXCEPT ![b] = "NONE"]
              /\ req' = [req EXCEPT ![r] = Finish(r, 204)]
    /\ loanLock' = ReleaseLoans(r)
    /\ UNCHANGED <<nextLoan, clock, autoflush, bookLock>>
    /\ UNCHANGED side

\* ==================================== create_book, update_book with an ISBN
\* BookCreate.isbn / BookUpdate.isbn: a string, or null
Isbns    == {"X1", "X2"}
IsbnArgs == Isbns \cup {"null"}

\* mutant: books.isbn carries no unique constraint
NeverTaken(bs, is, b, i) == FALSE

\* models/book.py:24  UNIQUE (isbn): another row holds this non-null ISBN
\* (b: the row being written, 0 for a new row)
IsbnTaken(bs, is, b, i) ==
    /\ i # "null"
    /\ \E c \in BookIds \ {b} : bs[c] # "NONE" /\ is[c] = i

\* Book.id default uuid4: an id no row has
FreshBook(bs) == CHOOSE b \in BookIds : bs[b] = "NONE" /\ \A c \in BookIds : c < b => bs[c] # "NONE"

\* book.py:71-89  INSERT the book and COMMIT; IntegrityError -> rollback, 409
CreateBook(r, u, i) ==
    /\ CanStart(r)
    /\ \E b \in BookIds : books[b] = "NONE"
    /\ LET b == FreshBook(books)
           q == [IdleReq EXCEPT !.op = "create", !.arg = i, !.pc = "done"] IN
       IF ~StaffOnly(u)
         THEN /\ req' = [req EXCEPT ![r] = Rejected("create", u)]
              /\ UNCHANGED <<books, isbn>>
         ELSE IF IsbnTaken(books, isbn, 0, i)
         THEN /\ req' = [req EXCEPT ![r] = [q EXCEPT !.res = 409]]
              /\ UNCHANGED <<books, isbn>>
         ELSE /\ req' = [req EXCEPT ![r] = [q EXCEPT !.res = 201, !.book = b]]
              /\ books' = [books EXCEPT ![b] = "AVAILABLE"]
              /\ isbn' = [isbn EXCEPT ![b] = i]
    /\ UNCHANGED <<loans, nextLoan, clock, autoflush, bookLock, loanLock>>
    /\ UNCHANGED <<accounts, logins, last>>

\* book.py:93 + get_book  SELECT the book, 404 when absent; the request
\* supplies the isbn field
SetIsbnGet(r, u, b, i) ==
    /\ CanStart(r)
    /\ LET q == [IdleReq EXCEPT !.op = "update", !.book = b, !.arg = i] IN
       req' = [req EXCEPT ![r] =
                 IF ~StaffOnly(u) THEN Rejected("update", u)
                 ELSE IF books[b] = "NONE" THEN [q EXCEPT !.pc = "done", !.res = 404]
                 ELSE [q EXCEPT !.pc = "isbn_commit", !.seen = isbn[b]]]
    /\ UNCHANGED <<books, loans, nextLoan, clock, autoflush, bookLock, loanLock>>
    /\ UNCHANGED side

\* book.py:95-107  setattr(book, "isbn", value); flush the UPDATE when the
\* value differs from the loaded one (StaleDataError when the row is gone,
\* IntegrityError -> rollback, 409), COMMIT, refresh
SetIsbnCommit(r) ==
    LET b == req[r].book
        i == req[r].arg
        w == i # req[r].seen IN
    /\ req[r].pc = "isbn_commit"
    /\ w => bookLock[b] \in {0, r}
    /\ IF books[b] = "NONE"
         THEN /\ req' = [req EXCEPT ![r] = Finish(r, 500)]
              /\ UNCHANGED isbn
         ELSE IF w /\ IsbnTaken(books, isbn, b, i)
         THEN /\ req' = [req EXCEPT ![r] = Finish(r, 409)]
              /\ UNCHANGED isbn
         ELSE /\ isbn' = IF w THEN [isbn EXCEPT ![b] = i] ELSE isbn
              /\ req' = [req EXCEPT ![r] = Finish(r, 200)]
    /\ UNCHANGED <<books, loans, nextLoan, clock, autoflush, bookLock, loanLock>>
    /\ UNCHANGED <<accounts, logins, last>>

\* =========================================================== list_books
\* the q of a request ("" = not given) and its status filter ("ANY" = not given)
Queries        == {"", "x", "2"}
StatusFilters  == {"ANY", "AVAILABLE", "BORROWED"}

\* the characters of the strings in use
Text(str) == CASE str = "X1" -> <<"X", "1">>
               [] str = "X2" -> <<"X", "2">>
               [] str = "x"  -> <<"x">>
               [] str = "2"  -> <<"2">>
               [] OTHER      -> <<>>

Lower(c) == IF c = "X" THEN "x" ELSE c

\* book.py:31  Book.isbn.ilike(f"%{q}%"): q occurs in the text, case folded
ILike(text, q) ==
    \E off \in 0..(Len(text) - Len(q)) :
        \A j \in 1..Len(q) : Lower(text[off + j]) = Lower(q[j])

\* book.py:26-40  the filters that are given, AND-combined (of the text
\* columns the model holds the ISBN; a NULL column matches nothing)
BookMatches(f, st, i) ==
    /\ f.q # "" => (i # "null" /\ ILike(Text(i), Text(f.q)))
    /\ f.st # "ANY" => st = f.st

Matching(f, bs, is) == {b \in BookIds : bs[b] # "NONE" /\ BookMatches(f, bs[b], is[b])}

\* book.py:42-43  SELECT count(*) FROM (stmt)
BookTotal(f, bs, is) == Cardinality(Matching(f, bs, is))

\* book.py:46  ORDER BY created_at DESC (ids are given out in creation order)
RECURSIVE NewestBooksFirst(_)
NewestBooksFirst(S) ==
    IF S = {} THEN <<>>
    ELSE LET m == CHOOSE b \in S : \A c \in S : c <= b
         IN <<m>> \o NewestBooksFirst(S \ {m})

\* mutant: integer division
FloorPages(total, size) == IF size = 0 THEN 1 ELSE total \div size

\* book.py:52  math.ceil(total / page_size) if page_size else 1
PageCount(total, size) ==
    IF size = 0 THEN 1
    ELSE CHOOSE k \in 0..total : k * size >= total /\ \A j \in 0..total : j * size >= total => k <= j

\* book.py:24-43  build the statement and run the count
BookCount(f, page, size) ==
    /\ last.pc # "rows"
    /\ last' = [op |-> "list_books", pc |-> "rows", status |-> 0, q |-> f.q, st |-> f.st,
                page |-> page, size |-> size, total |-> BookTotal(f, books, isbn),
                pages |-> 0, items |-> <<>>]
    /\ UNCHANGED <<ledger, isbn, accounts, logins>>

\* book.py:45-60  run the page of rows, compute pages, answer
BookRows ==
    /\ last.op = "list_books" /\ last.pc = "rows"
    /\ last' = [last EXCEPT
                  !.pc = "done", !.status = 200,
                  !.items = Window(NewestBooksFirst(Matching([q |-> last.q, st |-> last.st],
                                                             books, isbn)),
                                   last.page, last.size),
                  !.pages = PageCount(last.total, last.size)]
    /\ UNCHANGED <<ledger, isbn, accounts, logins>>

\* ============================================================ users table
\* db/seed.py:16-32  the users the seed script stores, without an OAuth identity
SeedUsers == <<[email |-> "admin@library.local", role |-> "ADMIN"],
               [email |-> "librarian@library.local", role |-> "LIBRARIAN"],
               [email |-> "member@library.local", role |-> "MEMBER"]>>

Seeded(u) == [email |-> SeedUsers[u].email, provider |-> "null", subject |-> "null",
              role |-> SeedUsers[u].role]

\* a users table holding some of the seeded users and nobody else
SeededTable ==
    \E S \in SUBSET (UserIds \cap DOMAIN SeedUsers) :
        accounts = [u \in UserIds |-> IF u \in S THEN Seeded(u) ELSE NoUser]

\* =========================== the authentication gate and the role-gated routes
Roles == {"ADMIN", "LIBRARIAN", "MEMBER"}

\* The "sub" of a JWT the service's key verifies: absent, a JSON number, the
\* text of a uuid (id: the users.id it spells), or text that spells no uuid.
SubClaims == {[form |-> f, id |-> 0] : f \in {"absent", "number", "words"}}
                 \cup {[form |-> "uuid", id |-> u] : u \in UserIds}

\* The Authorization header of a request.  kind "none": no header, or one that
\* is not "Bearer <credentials>"; "garbled": credentials that are no JWT;
\* "forged": a JWT signed with another key; "expired": a JWT of the service
\* past its exp; "signed": a JWT the service's key verifies, not expired.
Tokens == {[kind |-> k, sub |-> [form |-> "absent", id |-> 0]] :
               k \in {"none", "garbled", "forged", "expired"}}
              \cup {[kind |-> "signed", sub |-> s] : s \in SubClaims}

\* jwt.py:17-21  jwt.decode raises JWTError for a token it cannot parse, a bad
\* signature, a passed exp, and a "sub" that is not a string
DecodeFails(tok) == tok.kind # "signed" \/ tok.sub.form = "number"

\* dependencies.py:15-30  the status get_current_user raises (0: none) and the
\* user it returns.  uuid.UUID(user_id) stands outside the try block: its
\* ValueError is answered by the handler for Exception (main.py:163), 500
GetCurrentUser(us, tok) ==
    IF tok.kind = "none" THEN [status |-> 401, user |-> 0]
    ELSE IF DecodeFails(tok) \/ tok.sub.form = "absent" THEN [status |-> 401, user |-> 0]
    ELSE IF tok.sub.form # "uuid" THEN [status |-> 500, user |-> 0]
    ELSE IF us[tok.sub.id].role = "NONE" THEN [status |-> 401, user |-> 0]
    ELSE [status |-> 0, user |-> tok.sub.id]

\* the gated routes of the service and the roles each admits (auth.py:207,
\* books.py:204,253,280, admin.py:23,45)
Routes == {"me", "create_book", "update_book", "delete_book", "list_users", "patch_role"}

Permitted(route) ==
    CASE route = "me" -> Roles
      [] route \in {"create_book", "update_book", "delete_book"} -> {"LIBRARIAN", "ADMIN"}
      [] route \in {"list_users", "patch_role"} -> {"ADMIN"}

\* what a request carries besides its credential: a book id, a user id and a
\* value (an ISBN, a book status, a role), as the route takes them
NoArgs == [book |-> 0, target |-> 0, arg |-> "-"]

ArgsOf(route) ==
    CASE route = "create_book" -> {[NoArgs EXCEPT !.arg = i] : i \in IsbnArgs}
      [] route = "update_book" -> {[NoArgs EXCEPT !.book = b, !.arg = st] :
                                      b \in BookIds, st \in {"AVAILABLE", "BORROWED"}}
      [] route = "delete_book" -> {[NoArgs EXCEPT !.book = b] : b \in BookIds}
      [] route = "patch_role"  -> {[NoArgs EXCEPT !.target = t, !.arg = ro] :
                                      t \in UserIds, ro \in Roles}
      [] OTHER -> {NoArgs}

\* a request at a gated route.  tok: its credential; uid, role: the user
\* get_current_user loaded; book, target, arg: what the handler was called
\* with; out: the rows a listing returned; res: the status it ended with
GatedReq(route, tok) ==
    [op |-> route, pc |-> "done", tok |-> tok, uid |-> 0, role |-> "-",
     book |-> 0, target |-> 0, arg |-> "-", out |-> {}, res |-> 0]

\* a gate that goes by the role the user had when the token was issued
EnterAsIssued(r, route, tok, a) ==
    /\ CanStart(r)
    /\ LET g == GetCurrentUser(accounts, tok)
           q == GatedReq(route, tok) IN
       req' = [req EXCEPT ![r] =
                 IF g.status # 0 THEN [q EXCEPT !.res = g.status]
                 ELSE LET w == [q EXCEPT !.uid = g.user, !.role = Seeded(g.user).role] IN
                      IF w.role \notin Permitted(route) THEN [w EXCEPT !.res = 403]
                      ELSE [w EXCEPT !.pc = "serve", !.book = a.book,
                                     !.target = a.target, !.arg = a.arg]]
    /\ UNCHANGED <<books, loans, nextLoan, clock, autoflush, bookLock, loanLock>>
    /\ UNCHANGED side

\* dependencies.py:15-39  get_current_user, then the role check of
\* require_role on the user it loaded; the handler is called when neither raises
Enter(r, route, tok, a) ==
    /\ CanStart(r)
    /\ LET g == GetCurrentUser(accounts, tok)
           q == GatedReq(route, tok) IN
       req' = [req EXCEPT ![r] =
                 IF g.status # 0 THEN [q EXCEPT !.res = g.status]
                 ELSE LET w == [q EXCEPT !.uid = g.user, !.role = accounts[g.user].role] IN
                      IF w.role \notin Permitted(route) THEN [w EXCEPT !.res = 403]
                      ELSE [w EXCEPT !.pc = "serve", !.book = a.book,
                                     !.target = a.target, !.arg = a.arg]]
    /\ UNCHANGED <<books, loans, nextLoan, clock, autoflush, bookLock, loanLock>>
    /\ UNCHANGED side

Serving(r, route) == req[r].pc = "serve" /\ req[r].op = route

Answer(r, code) == [req[r] EXCEPT !.pc = "done", !.res = code]

\* auth.py:207  GET /auth/me returns the user the gate loaded
ServeMe(r) ==
    /\ Serving(r, "me")
    /\ req' = [req EXCEPT ![r] = [Answer(r, 200) EXCEPT !.out = {req[r].uid}]]
    /\ UNCHANGED <<books, loans, nextLoan, clock, autoflush, bookLock, loanLock>>
    /\ UNCHANGED side

\* book.py:71-89  create_book behind its gate: INSERT and COMMIT, 409 on the
\* unique constraint
ServeCreate(r) ==
    /\ Serving(r, "create_book")
    /\ \E b \in BookIds : books[b] = "NONE"
    /\ IF IsbnTaken(books, isbn, 0, req[r].arg)
         THEN /\ req' = [req EXCEPT ![r] = Answer(r, 409)]
              /\ UNCHANGED <<books, isbn>>
         ELSE /\ req' = [req EXCEPT ![r] = [Answer(r, 201) EXCEPT !.book = FreshBook(books)]]
              /\ books' = [books EXCEPT ![FreshBook(books)] = "AVAILABLE"]
              /\ isbn' = [isbn EXCEPT ![FreshBook(books)] = req[r].arg]
    /\ UNCHANGED <<loans, nextLoan, clock, autoflush, bookLock, loanLock>>
    /\ UNCHANGED <<accounts, logins, last>>

\* book.py:92-107  update_book behind its gate, the request setting the status:
\* 404 when the book is absent, else the status is written and committed
ServeUpdate(r) ==
    /\ Serving(r, "update_book")
    /\ IF books[req[r].book] = "NONE"
         THEN /\ req' = [req EXCEPT ![r] = Answer(r, 404)]
              /\ UNCHANGED books
         ELSE /\ req' = [req EXCEPT ![r] = Answer(r, 200)]
              /\ books' = [books EXCEPT ![req[r].book] = req[r].arg]
    /\ UNCHANGED <<loans, nextLoan, clock, autoflush, bookLock, loanLock>>
    /\ UNCHANGED side

\* book.py:110-128  delete_book behind its gate: 404 when the book is absent,
\* 409 while it has an OUT loan, else the row and its loans are deleted
ServeDelete(r) ==
    /\ Serving(r, "delete_book")
    /\ IF books[req[r].book] = "NONE"
         THEN /\ req' = [req EXCEPT ![r] = Answer(r, 404)]
              /\ UNCHANGED <<books, isbn, loans>>
         ELSE IF BorrowedNow(loans, req[r].book)
         THEN /\ req' = [req EXCEPT ![r] = Answer(r, 409)]
              /\ UNCHANGED <<books, isbn, loans>>
         ELSE /\ req' = [req EXCEPT ![r] = Answer(r, 204)]
              /\ books' = [books EXCEPT ![req[r].book] = "NONE"]
              /\ isbn' = [isbn EXCEPT ![req[r].book] = "null"]
              /\ loans' = [l \in LoanIds |-> IF loans[l].book = req[r].book
                                               THEN NoLoan ELSE loans[l]]
    /\ UNCHANGED <<nextLoan, clock, autoflush, bookLock, loanLock>>
    /\ UNCHANGED <<accounts, logins, last>>

\* user.py:38-40  list_users: every users row
ServeListUsers(r) ==
    /\ Serving(r, "list_users")
    /\ req' = [req EXCEPT ![r] =
                 [Answer(r, 200) EXCEPT !.out = {u \in UserIds : accounts[u].role # "NONE"}]]
    /\ UNCHANGED <<books, loans, nextLoan, clock, autoflush, bookLock, loanLock>>
    /\ UNCHANGED side

\* user.py:43-46  update_user_role: db.get(User, user_id), 404 when absent
PatchGet(r) ==
    /\ Serving(r, "patch_role")
    /\ req' = [req EXCEPT ![r] =
                 IF accounts[req[r].target].role = "NONE" THEN Answer(r, 404)
                 ELSE [req[r] EXCEPT !.pc = "role_commit"]]
    /\ UNCHANGED <<books, loans, nextLoan, clock, autoflush, bookLock, loanLock>>
    /\ UNCHANGED side

\* user.py:47-50  user.role = role, COMMIT, refresh
PatchCommit(r) ==
    /\ req[r].pc = "role_commit"
    /\ accounts' = [accounts EXCEPT ![req[r].target].role = req[r].arg]
    /\ req' = [req EXCEPT ![r] = Answer(r, 200)]
    /\ UNCHANGED <<books, loans, nextLoan, clock, autoflush, bookLock, loanLock>>
    /\ UNCHANGED <<isbn, logins, last>>

\* ====================================================== get_or_create_user
\* what an identity provider asserts about the person logging in (auth.py:
\* 129-182): provider, the provider's subject id, and the e-mail address
Providers == {"google", "github"}
Subjects  == {"s1", "s2"}
Emails    == {SeedUsers[u].email : u \in DOMAIN SeedUsers} \cup {"reader@example.org"}

Present(us) == {u \in UserIds : us[u].role # "NONE"}

\* user.py:19-21  the rows WHERE oauth_provider = p AND oauth_subject = s
BySubject(us, p, s) == {u \in Present(us) : us[u].provider = p /\ us[u].subject = s}

\* user.py:24  the rows WHERE email = e
ByEmail(us, e) == {u \in Present(us) : us[u].email = e}

\* User.id default uuid4: an id no row has
FreshUser(us) == CHOOSE u \in UserIds : us[u].role = "NONE" /\
                                        \A v \in UserIds : v < u => us[v].role # "NONE"

\* a created user that is no MEMBER
NewLibrarian(e, p, s) == [email |-> e, provider |-> p, subject |-> s, role |-> "LIBRARIAN"]
\* user.py:26-31  User(email, name, oauth_provider, oauth_subject); role is
\* left to its server default (models/user.py:25-29)
NewUser(e, p, s) == [email |-> e, provider |-> p, subject |-> s, role |-> "MEMBER"]

\* calls begin in slot order
CanLogin(c) == /\ logins[c].pc = "idle"
               /\ \A d \in Calls : d < c => logins[d].pc # "idle"

Returned(c, u, how) == [logins[c] EXCEPT !.pc = "done", !.user = u, !.via = how]

\* user.py:19-21  SELECT by (provider, subject); scalar() takes the first row
LoginBySubject(c, e, p, s) ==
    /\ CanLogin(c)
    /\ LET q == [IdleLogin EXCEPT !.email = e, !.provider = p, !.subject = s] IN
       IF BySubject(accounts, p, s) # {}
         THEN \E u \in BySubject(accounts, p, s) :
                  logins' = [logins EXCEPT ![c] = [q EXCEPT !.pc = "done", !.user = u,
                                                            !.via = "subject"]]
         ELSE logins' = [logins EXCEPT ![c] = [q EXCEPT !.pc = "by_email"]]
    /\ UNCHANGED <<ledger, isbn, accounts, last>>

\* an e-mail lookup that stores the asserted identity in the row it finds
LinkByEmail(c) ==
    /\ logins[c].pc = "by_email"
    /\ IF ByEmail(accounts, logins[c].email) # {}
         THEN \E u \in ByEmail(accounts, logins[c].email) :
                  /\ logins' = [logins EXCEPT ![c] = Returned(c, u, "email")]
                  /\ accounts' = [accounts EXCEPT ![u].provider = logins[c].provider,
                                                  ![u].subject = logins[c].subject]
         ELSE /\ logins' = [logins EXCEPT ![c] = [logins[c] EXCEPT !.pc = "insert"]]
              /\ UNCHANGED accounts
    /\ UNCHANGED <<ledger, isbn, last>>

\* user.py:22-24  SELECT by email
LoginByEmail(c) ==
    /\ logins[c].pc = "by_email"
    /\ IF ByEmail(accounts, logins[c].email) # {}
         THEN \E u \in ByEmail(accounts, logins[c].email) :
                  logins' = [logins EXCEPT ![c] = Returned(c, u, "email")]
         ELSE logins' = [logins EXCEPT ![c] = [logins[c] EXCEPT !.pc = "insert"]]
    /\ UNCHANGED <<ledger, isbn, accounts, last>>

\* user.py:25-35  INSERT the user, COMMIT, refresh.  The unique constraint on
\* users.email refuses a second row with the address: the IntegrityError is
\* not caught and the call fails
LoginInsert(c) ==
    /\ logins[c].pc = "insert"
    /\ \E u \in UserIds : accounts[u].role = "NONE"
    /\ IF ByEmail(accounts, logins[c].email) # {}
         THEN /\ logins' = [logins EXCEPT ![c] = Returned(c, 0, "error")]
              /\ UNCHANGED accounts
         ELSE /\ accounts' = [accounts EXCEPT ![FreshUser(accounts)] =
                                  NewUser(logins[c].email, logins[c].provider,
                                          logins[c].subject)]
              /\ logins' = [logins EXCEPT ![c] = Returned(c, FreshUser(accounts), "created")]
    /\ UNCHANGED <<ledger, isbn, last>>

\* ============================================================== behaviour
Next ==
    \/ \E r \in Reqs, u \in Users, b \in BookIds : StartCheckout(r, u, b)
    \/ \E r \in Reqs : CheckoutLock(r)
    \/ \E r \in Reqs : CheckoutCommit(r)
    \/ \E r \in Reqs, u \in Users, l \in 1..nextLoan : ReturnSelect(r, u, l)
    \/ \E r \in Reqs : ReturnGetBook(r)
    \/ \E r \in Reqs : ReturnCommit(r)
    \/ \E r \in Reqs, u \in Users, b \in BookIds, st \in StatusArgs : UpdateGet(r, u, b, st)
    \/ \E r \in Reqs : UpdateCommit(r)
    \/ \E r \in Reqs, u \in Users, b \in BookIds : DeleteGet(r, u, b)
    \/ \E r \in Reqs : DeleteCheck(r)
    \/ \E r \in Reqs : DeleteLoans(r)
    \/ \E r \in Reqs : DeleteCommit(r)

Spec == Init /\ [][Next]_vars

\* the ledger without the administrative status override (no update_book)
NextLedger ==
    \/ \E r \in Reqs, u \in Users, b \in BookIds : StartCheckout(r, u, b)
    \/ \E r \in Reqs : CheckoutLock(r)
    \/ \E r \in Reqs : CheckoutCommit(r)
    \/ \E r \in Reqs, u \in Users, l \in 1..nextLoan : ReturnSelect(r, u, l)
    \/ \E r \in Reqs : ReturnGetBook(r)
    \/ \E r \in Reqs : ReturnCommit(r)
    \/ \E r \in Reqs, u \in Users, b \in BookIds : DeleteGet(r, u, b)
    \/ \E r \in Reqs : DeleteCheck(r)
    \/ \E r \in Reqs : DeleteLoans(r)
    \/ \E r \in Reqs : DeleteCommit(r)

SpecLedger == Init /\ [][NextLedger]_vars

\* a shelf on which every id names a book, with checkouts and returns only
InitShelf == InitLedger(BookIds) /\ SideAtRest

NextShelf ==
    \/ \E r \in Reqs, u \in Users, b \in BookIds : StartCheckout(r, u, b)
    \/ \E r \in Reqs : CheckoutLock(r)
    \/ \E r \in Reqs : CheckoutCommit(r)
    \/ \E r \in Reqs, u \in Users, l \in 1..nextLoan : ReturnSelect(r, u, l)
    \/ \E r \in Reqs : ReturnGetBook(r)
    \/ \E r \in Reqs : ReturnCommit(r)

SpecShelf == InitShelf /\ [][NextShelf]_vars

\* checkouts whose SELECT ... FOR UPDATE locks nothing: the partial unique
\* index is all that stands between two of them
NextUnlocked ==
    \/ \E r \in Reqs, u \in Users, b \in BookIds : StartCheckout(r, u, b)
    \/ \E r \in Reqs : CheckoutUnlocked(r)
    \/ \E r \in Reqs : CheckoutCommit(r)

SpecUnlocked == InitShelf /\ [][NextUnlocked]_vars

\* listings of the loans, each of two statements, while one checkout or return
\* request is served next to them
Writer == {r \in Reqs : r = 1}

NextListing ==
    \/ \E r \in Writer, u \in Users, b \in BookIds : StartCheckout(r, u, b)
    \/ \E r \in Writer : CheckoutLock(r)
    \/ \E r \in Writer : CheckoutCommit(r)
    \/ \E r \in Writer, u \in Users, l \in 1..nextLoan : ReturnSelect(r, u, l)
    \/ \E r \in Writer : ReturnGetBook(r)
    \/ \E r \in Writer : ReturnCommit(r)
    \/ \E u \in Users, page \in Pages, size \in Sizes : ListCount(u, page, size)
    \/ ListRows

SpecListing == InitShelf /\ [][NextListing]_vars

\* the catalogue a behaviour starts from: the first k ids name books, each
\* with an ISBN of its own or none
InitCatalogue ==
    /\ \E k \in 0..MaxBooks : InitLedger(1..k)
    /\ isbn \in [BookIds -> IsbnArgs]
    /\ \A b \in BookIds : books[b] = "NONE" => isbn[b] = "null"
    /\ \A b, c \in BookIds : (b # c /\ isbn[b] = isbn[c]) => isbn[b] = "null"
    /\ accounts = [u \in UserIds |-> NoUser]
    /\ logins = [c \in Calls |-> IdleLogin]
    /\ last = NoReply

\* the catalogue under concurrent create and update requests
NextCatalogue ==
    \/ \E r \in Reqs, u \in Users, i \in IsbnArgs : CreateBook(r, u, i)
    \/ \E r \in Reqs, u \in Users, b \in BookIds, i \in IsbnArgs : SetIsbnGet(r, u, b, i)
    \/ \E r \in Reqs : SetIsbnCommit(r)

\* a catalogue none of whose books is out on loan
InitUnlent == InitCatalogue /\ \A b \in BookIds : books[b] # "BORROWED"

SpecCatalogue == InitUnlent /\ [][NextCatalogue]_vars

\* listings of the catalogue, each of two statements, while one create or
\* update request is served next to them
Filters == [q : Queries, st : StatusFilters]

NextBrowse ==
    \/ \E r \in Writer, u \in Users, i \in IsbnArgs : CreateBook(r, u, i)
    \/ \E r \in Writer, u \in Users, b \in BookIds, i \in IsbnArgs : SetIsbnGet(r, u, b, i)
    \/ \E r \in Writer : SetIsbnCommit(r)
    \/ \E f \in Filters, page \in Pages, size \in Sizes : BookCount(f, page, size)
    \/ BookRows

\* who borrowed a book and the autoflush setting do not enter a listing
InitBrowse ==
    /\ InitCatalogue
    /\ autoflush
    /\ \A l \in LoanIds : loans[l].user \in {"-", "mem"}

SpecBrowse == InitBrowse /\ [][NextBrowse]_vars

\* one available book, some of the seeded users, no request open
InitGate ==
    /\ InitLedger(OneBook)
    /\ autoflush
    /\ \A b \in BookIds : books[b] # "BORROWED"
    /\ isbn = [b \in BookIds |-> "null"]
    /\ SeededTable
    /\ logins = [c \in Calls |-> IdleLogin]
    /\ last = NoReply

\* two requests at the gated routes, served concurrently
Pair == {r \in Reqs : r <= 2}

NextGate ==
    \/ \E r \in Pair, route \in Routes, tok \in Tokens :
           \E a \in ArgsOf(route) : Enter(r, route, tok, a)
    \/ \E r \in Pair : ServeMe(r)
    \/ \E r \in Pair : ServeCreate(r)
    \/ \E r \in Pair : ServeUpdate(r)
    \/ \E r \in Pair : ServeDelete(r)
    \/ \E r \in Pair : ServeListUsers(r)
    \/ \E r \in Pair : PatchGet(r)
    \/ \E r \in Pair : PatchCommit(r)

SpecGate == InitGate /\ [][NextGate]_vars

\* a users table with at most one of the seeded users, leaving an id free for
\* every call of the behaviour
InitAccounts ==
    /\ InitLedger(OneBook)
    /\ autoflush
    /\ \A b \in BookIds : books[b] # "BORROWED"
    /\ isbn = [b \in BookIds |-> "null"]
    /\ SeededTable
    /\ Cardinality(Present(accounts)) + MaxCalls <= MaxUsers
    /\ logins = [c \in Calls |-> IdleLogin]
    /\ last = NoReply

NoOpenLogin == \A c \in Calls : logins[c].pc \in {"idle", "done"}

\* logins one after another: a call begins when the one before has returned
NextAccounts ==
    \/ /\ NoOpenLogin
       /\ \E c \in Calls, e \in Emails, p \in Providers, s \in Subjects :
              LoginBySubject(c, e, p, s)
    \/ \E c \in Calls : LoginByEmail(c)
    \/ \E c \in Calls : LoginInsert(c)

SpecAccounts == InitAccounts /\ [][NextAccounts]_vars

\* two logins served concurrently: every callback request runs
\* get_or_create_user in a session of its own
Racing == {c \in Calls : c <= 2}

NextLogins ==
    \/ \E c \in Racing, e \in Emails, p \in Providers, s \in Subjects :
           LoginBySubject(c, e, p, s)
    \/ \E c \in Racing : LoginByEmail(c)
    \/ \E c \in Racing : LoginInsert(c)

SpecLogins == InitAccounts /\ [][NextLogins]_vars

\* ================================================================ claims
CheckoutsDone(code) == {r \in Reqs : req[r].op = "checkout" /\ req[r].res = code}
ReturnsDone(code)   == {r \in Reqs : req[r].op = "return" /\ req[r].res = code}

\* C1: in every reachable state, whatever the interleaving of checkouts,
\* returns, updates and deletes, every book has at most one loan with status OUT.
C1_AtMostOneActiveLoan ==
    \A b \in BookIds : Cardinality(ActiveLoans(loans, b)) <= 1

\* a checkout passed the status check on a book that still had an OUT loan
\* (its status had been overridden) and was refused by the unique index
C1_Witness ==
    \E r \in CheckoutsDone(409) :
        /\ req[r].seen = "AVAILABLE"
        /\ books[req[r].book] = "AVAILABLE"
        /\ Cardinality(ActiveLoans(loans, req[r].book)) = 1

\* C2: without the status override, a book is BORROWED iff exactly one OUT loan
\* references it and AVAILABLE iff none does, in every reachable state.
C2_StatusMatchesLoans ==
    \A b \in BookIds :
        /\ books[b] = "BORROWED"  => Cardinality(ActiveLoans(loans, b)) = 1
        /\ books[b] = "AVAILABLE" => Cardinality(ActiveLoans(loans, b)) = 0
        /\ Cardinality(ActiveLoans(loans, b)) = 1 => books[b] = "BORROWED"

\* C3: when the only requests are N >= 2 checkouts of one book that was
\* AVAILABLE with no loan, every finished request ended 201 or 409, exactly one
\* ended 201 (the first to finish), and every 409 came from the status check:
\* the loser read the committed BORROWED status after waiting for the row lock.
OnlyCheckoutsOf(b) ==
    \A r \in Reqs : req[r].op = "none" \/ (req[r].op = "checkout" /\ req[r].book = b)

NoEarlierLoan(b) ==
    \A l \in LoansOf(loans, b) : \E r \in CheckoutsDone(201) : req[r].loan = l

C3_OneWinner ==
    \A b \in BookIds :
        (books[b] # "NONE" /\ OnlyCheckoutsOf(b) /\ NoEarlierLoan(b)) =>
            /\ \A r \in Reqs : req[r].pc = "done" => req[r].res \in {201, 409}
            /\ Cardinality(CheckoutsDone(201)) <= 1
            /\ (\E r \in Reqs : req[r].pc = "done") => Cardinality(CheckoutsDone(201)) = 1
            /\ \A r \in CheckoutsDone(409) : req[r].seen = "BORROWED"
            /\ (\A r \in Reqs : req[r].pc = "done") =>
                   Cardinality(CheckoutsDone(409)) = MaxReq - 1

\* all requests were checkouts of the same free book, all have finished, and a
\* loser had found the row locked by the winner when it arrived
C3_Witness ==
    \E b \in BookIds :
        /\ books[b] # "NONE" /\ OnlyCheckoutsOf(b) /\ NoEarlierLoan(b)
        /\ \A r \in Reqs : req[r].pc = "done"
        /\ Cardinality(CheckoutsDone(201)) = 1
        /\ Cardinality(CheckoutsDone(409)) >= 1
        /\ \E r \in CheckoutsDone(409) : req[r].blocked

\* C4: once a book's loan has been returned and no loan of it is OUT, a
\* checkout of that book by any user (the earlier borrower included) passes
\* the status check and commits with 201, creating a new OUT loan whose user
\* is the actor; every RETURNED loan stays as it was.
ReturnedAndFree(b) ==
    /\ ActiveLoans(loans, b) = {}
    /\ \E l \in LoansOf(loans, b) : loans[l].status = "RETURNED"

C4_Step ==
    \A r \in Reqs :
        (req[r].op = "checkout" /\ req'[r] # req[r] /\ ReturnedAndFree(req[r].book)) =>
            /\ req[r].pc = "co_lock" => req'[r].pc = "co_commit"
            /\ req[r].pc = "co_commit" =>
                  /\ req'[r].res = 201
                  /\ loans[req'[r].loan].status = "NONE"
                  /\ loans'[req'[r].loan].status = "OUT"
                  /\ loans'[req'[r].loan].user = req[r].actor
                  /\ loans'[req'[r].loan].book = req[r].book
                  /\ \A l \in LoanIds : loans[l].status = "RETURNED" => loans'[l] = loans[l]

C4_CheckoutAfterReturn == [][C4_Step]_vars

\* checkout by A (201), return of that loan (200), checkout by another user B
\* (201): the first loan is RETURNED, the second is OUT and B's
C4_Witness ==
    \E r1, r2, r3 \in Reqs :
        /\ r1 \in CheckoutsDone(201) /\ r3 \in CheckoutsDone(201) /\ r2 \in ReturnsDone(200)
        /\ req[r2].loan = req[r1].loan
        /\ req[r3].book = req[r1].book
        /\ req[r3].actor # req[r1].actor
        /\ loans[req[r1].loan].status = "RETURNED"
        /\ loans[req[r3].loan].status = "OUT"
        /\ loans[req[r3].loan].user = req[r3].actor

\* a return request arrives and runs its lookup in this step
ReturnArrives(r) == req[r].pc = "idle" /\ req'[r].op = "return"

NotBorrower(r) ==
    /\ role(req'[r].actor) = "MEMBER"
    /\ loans[req'[r].loan].user # req'[r].actor

Untouched == loans' = loans /\ books' = books

\* C5 as stated: for every loan L (whatever its status) and every MEMBER who is
\* not L's borrower, the return is answered 403 and changes no loan and no book.
C5_AnyLoanStep ==
    \A r \in Reqs :
        (ReturnArrives(r) /\ loans[req'[r].loan].status # "NONE" /\ NotBorrower(r)) =>
            (req'[r].pc = "done" /\ req'[r].res = 403 /\ Untouched)

C5_ForbiddenForAnyLoan == [][C5_AnyLoanStep]_vars

\* C5 amended: for every loan L whose status is OUT and every MEMBER who is not
\* L's borrower, the return is answered 403 and changes no loan and no book.
C5_ActiveLoanStep ==
    \A r \in Reqs :
        (ReturnArrives(r) /\ loans[req'[r].loan].status = "OUT" /\ NotBorrower(r)) =>
            (req'[r].pc = "done" /\ req'[r].res = 403 /\ Untouched)

C5_ForbiddenForActiveLoan == [][C5_ActiveLoanStep]_vars

\* a MEMBER's return of somebody else's loan was refused; the loan is still OUT
C5_Witness ==
    \E r \in ReturnsDone(403) :
        /\ role(req[r].actor) = "MEMBER"
        /\ loans[req[r].loan].status = "OUT"
        /\ loans[req[r].loan].user # req[r].actor
        /\ books[loans[req[r].loan].book] = "BORROWED"

\* C6: a return of a loan that is OUT by a LIBRARIAN, an ADMIN, or the MEMBER
\* who borrowed it is accepted by the lookup and the ownership check, and, the
\* loan still being OUT when its statements run, ends 200 with the loan RETURNED.
MayReturn(r) ==
    \/ role(req'[r].actor) \in {"LIBRARIAN", "ADMIN"}
    \/ loans[req'[r].loan].user = req'[r].actor

C6_Step ==
    \A r \in Reqs :
        /\ (ReturnArrives(r) /\ loans[req'[r].loan].status = "OUT" /\ MayReturn(r)) =>
               req'[r].pc = "ret_get"
        /\ (req[r].op = "return" /\ req'[r] # req[r] /\ loans[req[r].loan].status = "OUT") =>
               /\ req[r].pc = "ret_get" => req'[r].pc = "ret_commit"
               /\ req[r].pc = "ret_commit" =>
                      (req'[r].res = 200 /\ loans'[req[r].loan].status = "RETURNED")

C7_Step ==
    \A l \in LoanIds :
        /\ (loans[l].status = "NONE" /\ loans'[l].status # "NONE") => loans'[l].status = "OUT"
        /\ loans[l].status = "RETURNED" => loans'[l].status \in {"RETURNED", "NONE"}

C7_OutThenReturned == [][C7_Step]_vars

\* two returns of the same loan have both written it, and it is RETURNED
C7_Witness ==
    \E r1, r2 \in ReturnsDone(200) :
        /\ r1 # r2
        /\ req[r1].loan = req[r2].loan
        /\ loans[req[r1].loan].status = "RETURNED"

\* C8: a return whose lookup finds no loan with that id, or finds the loan
\* already RETURNED, is answered 404 whoever the actor is, and changes no loan
\* (status, returned timestamp) and no book.
C8_Step ==
    \A r \in Reqs :
        (ReturnArrives(r) /\ loans[req'[r].loan].status # "OUT") =>
            (req'[r].pc = "done" /\ req'[r].res = 404 /\ Untouched)

C8_NotFoundChangesNothing == [][C8_Step]_vars

\* a return of a RETURNED loan was answered 404 while the book is out again
\* on a newer loan: the book is still BORROWED and the old loan keeps its stamp
C8_Witness ==
    \E r \in ReturnsDone(404) : \E l2 \in LoanIds :
        /\ loans[req[r].loan].status = "RETURNED"
        /\ loans[req[r].loan].ret_at # 0
        /\ l2 > req[r].loan
        /\ loans[l2].status = "OUT"
        /\ loans[l2].book = loans[req[r].loan].book
        /\ books[loans[l2].book] = "BORROWED"

\* C9: the committed tables change only in the step in which a request
\* commits, and that step applies all of the transaction's row writes: a new
\* OUT loan appears together with its book being BORROWED, a loan is written
\* RETURNED together with the pending book write, and a request that ends in
\* an error (a failed commit included) changes no loan and no book.
Ends(r) == req[r].pc # "done" /\ req'[r].pc = "done"

Commits(r) == Ends(r) /\ req'[r].res \in {200, 201, 204}

C9_Step ==
    /\ ~Untouched => \E r \in Reqs : Commits(r)
    /\ \A r \in Reqs : (Ends(r) /\ ~Commits(r)) => Untouched
    /\ \A l \in LoanIds :
           (loans[l].status = "NONE" /\ loans'[l].status # "NONE") =>
               books'[loans'[l].book] = "BORROWED"
    /\ \A r \in Reqs :
           (req[r].op = "checkout" /\ Commits(r)) =>
               (loans'[req'[r].loan].status = "OUT" /\ books'[req[r].book] = "BORROWED")
    /\ \A r \in Reqs :
           (req[r].op = "return" /\ Commits(r)) =>
               /\ loans'[req[r].loan].status = "RETURNED"
               /\ BookWritePending(req[r].seen) => books'[req[r].book] = "AVAILABLE"

C9_AtomicCommit == [][C9_Step]_vars

\* one checkout's commit was refused by the index and rolled back, another
\* request's return has committed: the loan is RETURNED and the book AVAILABLE
C9_Witness ==
    \E r1 \in CheckoutsDone(409), r2 \in ReturnsDone(200) :
        /\ req[r1].seen = "AVAILABLE"
        /\ loans[req[r2].loan].status = "RETURNED"
        /\ books[req[r2].book] = "AVAILABLE"
        /\ ActiveLoans(loans, req[r2].book) = {}

\* C10: a checkout that finds no book with the id is answered 404, one that
\* finds the book BORROWED is answered 409, and neither creates a loan or
\* changes a book.
C10_Step ==
    \A r \in Reqs :
        (req[r].op = "checkout" /\ req[r].pc = "co_lock" /\ req'[r] # req[r]) =>
            /\ books[req[r].book] = "NONE" =>
                   (req'[r].pc = "done" /\ req'[r].res = 404 /\ Untouched
                    /\ nextLoan' = nextLoan)
            /\ books[req[r].book] = "BORROWED" =>
                   (req'[r].pc = "done" /\ req'[r].res = 409 /\ Untouched
                    /\ nextLoan' = nextLoan)

C10_CheckoutRefused == [][C10_Step]_vars

\* a checkout of a deleted book was answered 404 and left no loan behind
C10_Witness ==
    \E r \in CheckoutsDone(404) :
        /\ books[req[r].book] = "NONE"
        /\ LoansOf(loans, req[r].book) = {}
        /\ \E d \in Reqs : /\ req[d].op = "delete" /\ req[d].res = 204
                            /\ req[d].book = req[r].book

\* C11: a checkout, by an actor of any role, of a book that is AVAILABLE and
\* has no OUT loan passes the status check and commits 201 however many OUT
\* loans the actor holds; the commit adds exactly one loan row, of this book,
\* OUT, of the actor, with no returned timestamp, and leaves the book BORROWED.
HeldBy(ls, u) == {l \in LoanIds : ls[l].status = "OUT" /\ ls[l].user = u}

C11_Step ==
    \A r \in Reqs :
        LET b == req[r].book
            l == req'[r].loan IN
        /\ (req[r].pc = "co_lock" /\ req'[r] # req[r]
                /\ books[b] = "AVAILABLE" /\ ActiveLoans(loans, b) = {}) =>
               req'[r].pc = "co_commit"
        /\ (req[r].pc = "co_commit" /\ req'[r] = req[r] /\ ActiveLoans(loans, b) = {}) =>
               ActiveLoans(loans', b) = {}
        /\ (req[r].pc = "co_commit" /\ req'[r] # req[r] /\ ActiveLoans(loans, b) = {}) =>
               /\ req'[r].res = 201
               /\ {k \in LoanIds : loans'[k] # loans[k]} = {l}
               /\ loans[l].status = "NONE"
               /\ loans'[l].book = b /\ loans'[l].user = req[r].actor
               /\ loans'[l].status = "OUT" /\ loans'[l].ret_at = 0
               /\ ActiveLoans(loans', b) = {l}
               /\ books'[b] = "BORROWED"

C11_CheckoutSucceeds == [][C11_Step]_vars

\* a borrower who already held an OUT loan of one book has checked out the
\* other book as well, and some checkout by a LIBRARIAN or ADMIN has succeeded
C11_Witness ==
    /\ \E r \in CheckoutsDone(201) :
           /\ loans[req[r].loan].status = "OUT"
           /\ books[req[r].book] = "BORROWED"
           /\ \E k \in HeldBy(loans, req[r].actor) :
                  k # req[r].loan /\ loans[k].out_at < loans[req[r].loan].out_at
    /\ \E r \in CheckoutsDone(201) : role(req[r].actor) # "MEMBER"

\* C12: a return that ends 200 leaves its loan RETURNED with the returned
\* timestamp it took and the loan's book AVAILABLE, changes no other loan, no
\* other book and no user, and no step ever changes the book, borrower or
\* checked-out timestamp of an existing loan.
C12_Step ==
    /\ \A r \in Reqs :
           (req[r].op = "return" /\ Commits(r)) =>
               LET l == req[r].loan
                   b == loans[l].book IN
               /\ loans'[l].status = "RETURNED"
               /\ loans'[l].ret_at = req[r].ts /\ req[r].ts # 0
               /\ books'[b] = "AVAILABLE"
               /\ \A k \in LoanIds \ {l} : loans'[k] = loans[k]
               /\ \A c \in BookIds \ {b} : books'[c] = books[c]
               /\ accounts' = accounts
    /\ \A l \in LoanIds :
           (loans[l].status # "NONE" /\ loans'[l].status # "NONE") =>
               /\ loans'[l].book = loans[l].book
               /\ loans'[l].user = loans[l].user
               /\ loans'[l].out_at = loans[l].out_at

C12_ReturnEffect == [][C12_Step]_vars

\* C13: a delete whose check finds an OUT loan of the book is answered 409 and
\* one whose lookup finds no book with the id is answered 404; neither removes
\* or changes a book or a loan.
C13_Step ==
    \A r \in Reqs :
        /\ (req[r].pc = "idle" /\ req'[r].op = "delete" /\ req'[r].book # 0
                /\ books[req'[r].book] = "NONE") =>
               (req'[r].pc = "done" /\ req'[r].res = 404 /\ Untouched)
        /\ (req[r].pc = "del_check" /\ req'[r] # req[r]
                /\ ActiveLoans(loans, req[r].book) # {}) =>
               (req'[r].pc = "done" /\ req'[r].res = 409 /\ Untouched)

C13_DeleteRefused == [][C13_Step]_vars

\* one delete named a borrowed book and was answered 409, the book and its
\* OUT loan are still there; another named an unknown id and was answered 404
C13_Witness ==
    \E r1, r2 \in Reqs :
        /\ req[r1].op = "delete" /\ req[r1].res = 409
        /\ books[req[r1].book] = "BORROWED"
        /\ ActiveLoans(loans, req[r1].book) # {}
        /\ req[r2].op = "delete" /\ req[r2].res = 404
        /\ books[req[r2].book] = "NONE"
        /\ LoansOf(loans, req[r2].book) = {}

\* C14: in every reachable state every loan row references a book row and a
\* user that exist, and a delete that ends 204 leaves neither the book nor
\* any loan that referenced it.
C14_Inv ==
    \A l \in LoanIds :
        loans[l].status # "NONE" =>
            (loans[l].book \in BookIds /\ books[loans[l].book] # "NONE"
             /\ loans[l].user \in Users)

C14_Step ==
    \A r \in Reqs :
        (req[r].op = "delete" /\ Ends(r) /\ req'[r].res = 204) =>
            (books'[req[r].book] = "NONE" /\ LoansOf(loans', req[r].book) = {})

C14_NoOrphanLoan == []C14_Inv /\ [][C14_Step]_vars

\* a book was borrowed, returned and then deleted: the delete ended 204 and
\* took the RETURNED loan with it
C14_Witness ==
    \E d \in Reqs, r \in ReturnsDone(200) :
        /\ req[d].op = "delete" /\ req[d].res = 204
        /\ req[r].book = req[d].book
        /\ books[req[d].book] = "NONE"
        /\ loans[req[r].loan].status = "NONE"
        /\ LoansOf(loans, req[d].book) = {}

\* C15: a MEMBER's listing returns only loans of the actor and its total is
\* the number of the actor's loans, so both are what they would be with every
\* other user's loan erased; a LIBRARIAN's or ADMIN's listing counts and pages
\* the loans of all users; the total counts the filtered set, not the page.
OwnLoans(u) == {l \in LoanIds : loans[l].status # "NONE" /\ loans[l].user = u}
AllLoans    == {l \in LoanIds : loans[l].status # "NONE"}

Erased(u) == [l \in LoanIds |-> IF loans[l].user = u THEN loans[l] ELSE NoLoan]

Counts == last'.op = "list_loans" /\ last'.pc = "rows" /\ last' # last
Answers == last'.op = "list_loans" /\ last'.pc = "done" /\ last' # last

PageLen(n, page, size) ==
    IF n - (page - 1) * size <= 0 THEN 0
    ELSE IF n - (page - 1) * size >= size THEN size ELSE n - (page - 1) * size

C15_Step ==
    LET u == last'.actor
        shown == {last'.items[i] : i \in 1..Len(last'.items)} IN
    /\ (Counts /\ role(u) = "MEMBER") =>
           /\ last'.total = Cardinality(OwnLoans(u))
           /\ last'.total = ListTotal(u, Erased(u))
    /\ (Counts /\ role(u) # "MEMBER") => last'.total = Cardinality(AllLoans)
    /\ (Answers /\ role(u) = "MEMBER") =>
           /\ shown \subseteq OwnLoans(u)
           /\ Len(last'.items) = PageLen(Cardinality(OwnLoans(u)), last.page, last.size)
           /\ last'.items = Window(NewestFirst(Listed(u, Erased(u)), Erased(u)),
                                   last.page, last.size)
    /\ (Answers /\ role(u) # "MEMBER") =>
           /\ shown \subseteq AllLoans
           /\ Len(last'.items) = PageLen(Cardinality(AllLoans), last.page, last.size)
           /\ (last.page = 1 /\ Cardinality(AllLoans) <= last.size) => shown = AllLoans
    /\ Answers =>
           /\ Cardinality(shown) = Len(last'.items)
           /\ last'.total = last.total /\ last'.actor = last.actor

C15_ListLoansVisibility == [][C15_Step]_vars

\* a MEMBER's listing was answered with a total of 1 and the actor's one loan
\* while the table also holds a loan of another user
C15_Witness ==
    /\ last.op = "list_loans" /\ last.pc = "done"
    /\ role(last.actor) = "MEMBER"
    /\ last.total = 1 /\ Len(last.items) = 1
    /\ loans[last.items[1]].user = last.actor
    /\ Cardinality(AllLoans) = 2
    /\ \E l \in AllLoans : loans[l].user # last.actor

\* C17: in every reachable state no two books share a non-null ISBN; a create
\* or an update that would give a book an ISBN another book holds is answered
\* 409 and leaves every book and every ISBN as it was; books without an ISBN
\* never conflict.
HoldsIsbn(i) == {b \in BookIds : books[b] # "NONE" /\ isbn[b] = i}

C17_Inv == \A i \in Isbns : Cardinality(HoldsIsbn(i)) <= 1

C17_Step ==
    \A r \in Reqs :
        /\ (req[r].pc = "idle" /\ req'[r].op = "create" /\ req'[r].actor = "-") =>
               IF HoldsIsbn(req'[r].arg) # {} /\ req'[r].arg # "null"
                 THEN req'[r].res = 409 /\ books' = books /\ isbn' = isbn
                 ELSE /\ req'[r].res = 201
                      /\ books[req'[r].book] = "NONE"
                      /\ books'[req'[r].book] = "AVAILABLE"
                      /\ isbn'[req'[r].book] = req'[r].arg
        /\ (req[r].pc = "isbn_commit" /\ req'[r] # req[r] /\ books[req[r].book] # "NONE") =>
               LET b == req[r].book
                   i == req[r].arg IN
               IF i = req[r].seen
                 THEN req'[r].res = 200 /\ isbn' = isbn
               ELSE IF i # "null" /\ HoldsIsbn(i) \ {b} # {}
                 THEN req'[r].res = 409 /\ isbn' = isbn
               ELSE req'[r].res = 200 /\ isbn' = [isbn EXCEPT ![b] = i]
        /\ (req[r].op \in {"create", "update"} /\ req'[r] # req[r]) =>
               /\ \A b \in BookIds : books[b] # "NONE" => books'[b] = books[b]
               /\ req'[r].res \notin {200, 201} => (books' = books /\ isbn' = isbn)

C17_UniqueIsbn == []C17_Inv /\ [][C17_Step]_vars

\* a create was refused for an ISBN a book holds, and an update of another
\* book to that ISBN was refused as well; both books are as they were
C17_Witness ==
    \E r1, r2 \in Reqs :
        /\ req[r1].op = "create" /\ req[r1].res = 409
        /\ req[r2].op = "update" /\ req[r2].res = 409
        /\ req[r2].arg = req[r1].arg
        /\ Cardinality(HoldsIsbn(req[r1].arg)) = 1
        /\ isbn[req[r2].book] # req[r2].arg
        /\ Cardinality({b \in BookIds : books[b] # "NONE"}) = 2

\* C16: for every filter set and page_size, over the catalogue as it stands:
\* pages is total / page_size rounded up, the pages 1..pages hold total rows
\* between them, every page before the last holds page_size rows, the last
\* holds at least one and a page beyond it none; and a listing's response
\* reports that pages for the total its count found, the total being the
\* size of the filtered set whatever the page asked for.
RECURSIVE SumTo(_, _, _)
SumTo(rows, p, size) ==
    IF p = 0 THEN 0 ELSE Len(Window(rows, p, size)) + SumTo(rows, p - 1, size)

C16_Inv ==
    \A f \in Filters, size \in Sizes :
        LET rows == NewestBooksFirst(Matching(f, books, isbn))
            total == BookTotal(f, books, isbn)
            pages == PageCount(total, size) IN
        /\ total = Len(rows)
        /\ pages = (total + size - 1) \div size
        /\ SumTo(rows, pages, size) = total
        /\ \A p \in 1..(pages - 1) : Len(Window(rows, p, size)) = size
        /\ pages > 0 => Len(Window(rows, pages, size)) \in 1..size
        /\ Len(Window(rows, pages + 1, size)) = 0

C16_Step ==
    /\ (last'.op = "list_books" /\ last'.pc = "rows" /\ last' # last) =>
           last'.total = Cardinality({b \in BookIds :
                             /\ books[b] # "NONE"
                             /\ last'.st # "ANY" => books[b] = last'.st
                             /\ last'.q = "x" => isbn[b] # "null"
                             /\ last'.q = "2" => isbn[b] = "X2"})
    /\ (last'.op = "list_books" /\ last'.pc = "done" /\ last' # last) =>
           /\ last'.total = last.total
           /\ last'.pages * last.size >= last.total
           /\ (last'.pages - 1) * last.size < last.total \/ last.total = 0
           /\ last.total = 0 => last'.pages = 0
           /\ Len(last'.items) <= last.size

C16_Pagination == []C16_Inv /\ [][C16_Step]_vars

\* a listing with a q filter found two books and was asked for page 2 of
\* size 1: it reports total 2, pages 2 and holds one row
C16_Witness ==
    /\ last.op = "list_books" /\ last.pc = "done"
    /\ last.q # "" /\ last.size = 1 /\ last.page = 2
    /\ last.total = 2 /\ last.pages = 2 /\ Len(last.items) = 1

\* C18: a request at a gated route whose credential is missing, malformed,
\* expired, wrongly signed, carries no subject, or carries a subject that
\* identifies no stored user ends 401 in the step in which it arrives: its
\* handler is not called and no table changes.
Arrives(r) == req[r].pc = "idle" /\ req'[r].pc # "idle"

Unauthenticated(tok) ==
    \/ tok.kind # "signed"
    \/ tok.sub.form # "uuid"
    \/ accounts[tok.sub.id].role = "NONE"

C18_Step ==
    \A r \in Reqs :
        (Arrives(r) /\ Unauthenticated(req'[r].tok)) =>
            /\ req'[r].pc = "done"
            /\ req'[r].res = 401
            /\ UNCHANGED <<books, isbn, loans, accounts>>

C18_Unauthorized == [][C18_Step]_vars

\* C19: at a role-gated route, a request of a stored user whose role the route
\* does not admit ends 403 in the step in which it arrives, and a request that
\* authenticates nobody ends 401, neither reaching the handler nor changing a
\* table; a step that adds, changes or removes a book is taken by a request
\* the gate passed for a LIBRARIAN or an ADMIN, a listing of the users and a
\* change of a role by one it passed for an ADMIN, so a request of a MEMBER
\* changes no book and no role.
RoleGated == {route \in Routes : Permitted(route) # Roles}

ChangesBook(r) ==
    /\ req[r].pc = "serve"
    /\ req[r].op \in {"create_book", "update_book", "delete_book"}
    /\ req'[r].pc = "done"

C19_Forbidden ==
    \A r \in Reqs :
        (/\ Arrives(r)
         /\ ~Unauthenticated(req'[r].tok)
         /\ accounts[req'[r].tok.sub.id].role \notin Permitted(req'[r].op)) =>
            /\ req'[r].pc = "done"
            /\ req'[r].res = 403
            /\ UNCHANGED <<books, isbn, loans, accounts>>

C19_NobodyIs401 ==
    \A r \in Reqs :
        (/\ Arrives(r)
         /\ req'[r].op \in RoleGated
         /\ Unauthenticated(req'[r].tok)) =>
            /\ req'[r].pc = "done"
            /\ req'[r].res = 401
            /\ UNCHANGED <<books, isbn, loans, accounts>>

C19_OnlyPermitted ==
    /\ <<books, isbn>> # <<books', isbn'>> =>
           \E r \in Reqs : ChangesBook(r) /\ req[r].role \in {"LIBRARIAN", "ADMIN"}
    /\ accounts # accounts' =>
           \E r \in Reqs : /\ req[r].pc = "role_commit"
                           /\ req'[r].pc = "done"
                           /\ req[r].role = "ADMIN"
    /\ \A r \in Reqs :
           (req[r].pc # "done" /\ req'[r].pc = "done" /\ req'[r].op = "list_users"
                /\ req'[r].res = 200) => req'[r].role = "ADMIN"
    /\ \A r \in Reqs :
           (req[r].pc # "done" /\ req'[r].pc = "done" /\ req'[r].role = "MEMBER") =>
               UNCHANGED <<books, isbn, loans, accounts>>

C19_Step == C19_Forbidden /\ C19_NobodyIs401 /\ C19_OnlyPermitted

C19_RoleGate == [][C19_Step]_vars

\* C20: get_or_create_user returns a user whose (provider, subject) is the
\* asserted one when such a row exists, whatever row holds the asserted
\* e-mail; else the row with the asserted e-mail when there is one; else it
\* adds exactly one row, with the asserted e-mail, provider and subject and
\* role MEMBER, and returns it; no other step adds or changes a users row; and
\* of two calls made one directly after the other with the same assertion the
\* second returns the user the first returned and adds no row.
Asserted(c) == logins'[c]

Known(c)     == {u \in UserIds : /\ accounts[u].role # "NONE"
                                 /\ accounts[u].provider = Asserted(c).provider
                                 /\ accounts[u].subject = Asserted(c).subject}
Addressed(c) == {u \in UserIds : /\ accounts[u].role # "NONE"
                                 /\ accounts[u].email = Asserted(c).email}

Returns(c) == logins[c].pc # "done" /\ logins'[c].pc = "done"

C20_Resolve ==
    \A c \in Calls :
        Returns(c) =>
            LET u == logins'[c].user IN
            /\ u \in UserIds
            /\ IF Known(c) # {}
                 THEN u \in Known(c) /\ accounts' = accounts
               ELSE IF Addressed(c) # {}
                 THEN u \in Addressed(c) /\ accounts' = accounts
               ELSE /\ accounts[u].role = "NONE"
                    /\ accounts' = [accounts EXCEPT ![u] =
                           [email |-> Asserted(c).email, provider |-> Asserted(c).provider,
                            subject |-> Asserted(c).subject, role |-> "MEMBER"]]

C20_Frame == (\A c \in Calls : ~Returns(c)) => accounts' = accounts

C20_Repeat ==
    \A c, d \in Calls :
        (/\ d = c + 1
         /\ logins[c].pc = "done" /\ logins[d].pc = "done"
         /\ logins[c].email = logins[d].email
         /\ logins[c].provider = logins[d].provider
         /\ logins[c].subject = logins[d].subject) =>
            /\ logins[d].user = logins[c].user
            /\ logins[d].via # "created"

SameAssertion(c, d) ==
    /\ logins[c].email = logins[d].email
    /\ logins[c].provider = logins[d].provider
    /\ logins[c].subject = logins[d].subject

C21_DuplicateSafe ==
    \A c, d \in Calls :
        (c # d /\ logins[c].pc = "done" /\ logins[d].pc = "done" /\ SameAssertion(c, d)) =>
            /\ logins[c].via # "error" /\ logins[d].via # "error"
            /\ logins[c].user = logins[d].user
            /\ Cardinality({u \in UserIds : /\ accounts[u].role # "NONE"
                                            /\ accounts[u].email = logins[c].email}) = 1

\* C22: in every reachable state no two users rows hold the same e-mail, and
\* no two rows that both have a provider and a subject hold the same
\* (provider, subject) pair.
C22_UniqueEmail ==
    \A u, v \in UserIds :
        (u # v /\ accounts[u].role # "NONE" /\ accounts[v].role # "NONE") =>
            accounts[u].email # accounts[v].email

C22_UniqueSubject ==
    \A u, v \in UserIds :
        (/\ u # v
         /\ accounts[u].role # "NONE" /\ accounts[v].role # "NONE"
         /\ accounts[u].provider # "null" /\ accounts[u].subject # "null"
         /\ accounts[v].provider # "null" /\ accounts[v].subject # "null") =>
            <<accounts[u].provider, accounts[u].subject>> #
                <<accounts[v].provider, accounts[v].subject>>

C22_UniqueUsers == C22_UniqueEmail /\ C22_UniqueSubject

\* C30: get_or_create_user changes no users row that exists; a call that finds
\* no row with the asserted (provider, subject) but one with the asserted
\* e-mail returns that row as it is, whatever provider and subject were
\* asserted; and while no row holds that (provider, subject), a later call with
\* the same assertion is again resolved by the e-mail lookup to the same user.
C30_Frame ==
    \A u \in UserIds : accounts[u].role # "NONE" => accounts'[u] = accounts[u]

C30_Fallback ==
    \A c \in Calls :
        (Returns(c) /\ Known(c) = {} /\ Addressed(c) # {}) =>
            /\ logins'[c].via = "email"
            /\ logins'[c].user \in Addressed(c)
            /\ accounts' = accounts

Unlinked(c) ==
    \A u \in UserIds :
        accounts[u].role # "NONE" =>
            ~(accounts[u].provider = logins[c].provider /\ accounts[u].subject = logins[c].subject)

C30_Again ==
    \A c, d \in Calls :
        (/\ c < d
         /\ logins[c].pc = "done" /\ logins[d].pc = "done"
         /\ SameAssertion(c, d)
         /\ logins[c].via = "email"
         /\ Unlinked(d)) =>
            logins[d].via = "email" /\ logins[d].user = logins[c].user

C30_SameAccount ==
    \A c, d \in Calls :
        (/\ logins[c].via = "email" /\ logins[d].via = "email"
         /\ logins[c].email = logins[d].email) =>
            logins[c].user = logins[d].user

C29_Step ==
    \A r \in Reqs :
        (Arrives(r) /\ ~Unauthenticated(req'[r].tok)) =>
            LET stored == accounts[req'[r].tok.sub.id].role IN
            /\ req'[r].uid = req'[r].tok.sub.id
            /\ req'[r].role = stored
            /\ IF stored \in Permitted(req'[r].op)
                 THEN req'[r].pc = "serve" /\ req'[r].res = 0
                 ELSE req'[r].pc = "done" /\ req'[r].res = 403

C29_StoredRoleDecides == [][C29_Step]_vars

\* the seeded LIBRARIAN was made a MEMBER by an ADMIN's request, and a request
\* of that user to create a book, its token unchanged, was then answered 403
C29_Witness ==
    \E p, r \in Reqs :
        /\ req[p].op = "patch_role" /\ req[p].res = 200 /\ req[p].arg = "MEMBER"
        /\ req[p].target \in DOMAIN SeedUsers
        /\ SeedUsers[req[p].target].role = "LIBRARIAN"
        /\ req[r].op = "create_book" /\ req[r].res = 403
        /\ req[r].uid = req[p].target
        /\ req[r].role = "MEMBER"
        /\ accounts[req[r].uid].role = "MEMBER"

\* C23: where the row lock has no effect and checkouts of one book have both
\* passed the status check, the index keeps at most one OUT loan per book: the
\* commit that finds an OUT loan of the book is answered 409, the answer of
\* the status check, and leaves no loan row and no book write of its own.
C23_Step ==
    \A r \in Reqs :
        (/\ req[r].pc = "co_commit" /\ req'[r].pc = "done"
         /\ \E l \in LoanIds : loans[l].status = "OUT" /\ loans[l].book = req[r].book) =>
            /\ req'[r].res = 409
            /\ loans' = loans
            /\ books' = books
            /\ nextLoan' = nextLoan
            /\ CheckoutRefusal("BORROWED") = req'[r].res

C23_OneOutLoan ==
    \A b \in BookIds :
        Cardinality({l \in LoanIds : loans[l].status = "OUT" /\ loans[l].book = b}) <= 1

C23_IndexSuffices == []C23_OneOutLoan /\ [][C23_Step]_vars

\* two checkouts of one book both read it AVAILABLE; one committed, the other
\* was answered 409, and the book has the one loan
C23_Witness ==
    \E r, q \in Reqs :
        /\ req[r].op = "checkout" /\ req[q].op = "checkout"
        /\ req[r].book = req[q].book
        /\ req[r].seen = "AVAILABLE" /\ req[q].seen = "AVAILABLE"
        /\ req[r].res = 201 /\ req[q].res = 409
        /\ books[req[r].book] = "BORROWED"
        /\ Cardinality(LoansOf(loans, req[r].book)) = 1
        /\ loans[req[r].loan].user = req[r].actor

\* C24: no step removes a book that an OUT loan references, and no step
\* removes a loan that is OUT, however a delete and a checkout of the book
\* interleave.
C24_Step ==
    /\ \A b \in BookIds :
           (books[b] # "NONE" /\ books'[b] = "NONE") =>
               ~ \E l \in LoanIds : loans[l].status = "OUT" /\ loans[l].book = b
    /\ \A l \in LoanIds : loans[l].status = "OUT" => loans'[l].status # "NONE"

C24_NoDeleteWhileOut == [][C24_Step]_vars

\* C25: of the returns of one loan at most one is answered 200 and every
\* other one 404 or 403, and a returned timestamp that has been set is never
\* changed.
C25_OneReturn ==
    \A l \in LoanIds :
        /\ Cardinality({r \in Reqs : req[r].op = "return" /\ req[r].loan = l
                                        /\ req[r].res = 200}) <= 1
        /\ \A r \in Reqs :
               (req[r].op = "return" /\ req[r].loan = l /\ req[r].pc = "done") =>
                   req[r].res \in {200, 403, 404}

C25_Step ==
    \A l \in LoanIds :
        (loans[l].status = "RETURNED" /\ loans'[l].status # "NONE") =>
            loans'[l].ret_at = loans[l].ret_at

C25_MutatedOnce == []C25_OneReturn /\ [][C25_Step]_vars

\* C26: the status of a book that stays in the catalogue changes only in the
\* commit of a checkout (201), of a return (200), or of an update that carries
\* the status it leaves; and a checkout that read the book AVAILABLE while an
\* OUT loan of it exists is answered 409 at its commit, adds no loan and
\* leaves every loan and book as it was.
WritesStatus(r, b) ==
    /\ req[r].pc # "done" /\ req'[r].pc = "done"
    /\ req[r].book = b
    /\ \/ req[r].op = "checkout" /\ req'[r].res = 201 /\ books'[b] = "BORROWED"
       \/ req[r].op = "return" /\ req'[r].res = 200 /\ books'[b] = "AVAILABLE"
       \/ req[r].op = "update" /\ req'[r].res = 200 /\ req[r].arg = books'[b]

C26_Writers ==
    \A b \in BookIds :
        (books[b] # "NONE" /\ books'[b] # "NONE" /\ books'[b] # books[b]) =>
            \E r \in Reqs : WritesStatus(r, b)

C26_Refused ==
    \A r \in Reqs :
        (/\ req[r].op = "checkout" /\ req[r].pc = "co_commit" /\ req'[r].pc = "done"
         /\ ActiveLoans(loans, req[r].book) # {}) =>
            /\ req'[r].res = 409
            /\ loans' = loans
            /\ books' = books

C27_DocumentedOutcomes ==
    \A r \in Reqs :
        (req[r].pc = "done" /\ req[r].op \in {"checkout", "return", "delete"}) =>
            req[r].res \in {200, 201, 204, 403, 404, 409}

\* C28: no two requests ever wait for each other: there is no reachable state
\* in which one request's next statement needs a row lock a second request
\* holds while the second's next statement needs a row lock the first holds.
NeedsBook(r) ==
    CASE req[r].pc = "co_lock" -> {req[r].book}
      [] req[r].pc = "ret_commit" /\ req[r].seen \notin {"NONE", "AVAILABLE"} -> {req[r].book}
      [] req[r].pc = "up_commit" /\ (req[r].arg = "UNSET" \/ req[r].arg # req[r].seen)
            -> {req[r].book}
      [] req[r].pc = "del_commit" -> {req[r].book}
      [] OTHER -> {}

NeedsLoan(r) ==
    CASE req[r].pc = "co_commit" ->
            {l \in LoanIds : loans[l].status = "OUT" /\ loans[l].book = req[r].book}
      [] req[r].pc = "ret_get" /\ autoflush -> {req[r].loan}
      [] req[r].pc = "ret_commit" -> {req[r].loan}
      [] req[r].pc = "del_loans" ->
            {l \in LoanIds : loans[l].status # "NONE" /\ loans[l].book = req[r].book}
      [] OTHER -> {}

WaitsFor(r, q) ==
    /\ r # q
    /\ \/ \E b \in NeedsBook(r) : bookLock[b] = q
       \/ \E l \in NeedsLoan(r) : loanLock[l] = q

C28_NoWaitCycle == \A r, q \in Reqs : ~(WaitsFor(r, q) /\ WaitsFor(q, r))

====
